---- MODULE Spec2Model ----
(***************************************************************************)
(* PLBenchmarks/utils.py: the observable conversions convertValue and      *)
(* convertError, and the identifier resolvers findPdbUrl and findDoiUrl.   *)
(*                                                                         *)
(* Numbers are decimal floating point values m * 10^e with a mantissa of   *)
(* six significant digits (the model's stand-in for IEEE doubles); a       *)
(* pint Quantity is a magnitude with a unit name.                          *)
(***************************************************************************)
EXTENDS Integers, Sequences, FiniteSets, TLC

----------------------------------------------------------------------------
(* Decimal floating point arithmetic                                       *)

\* one in the fixed-point form used inside Ln and Exp (five decimals)
FixOne == 100000

\* smallest and one-past-largest normalised mantissa
MantLo == 100000
MantHi == 1000000

Abs(x) == IF x < 0 THEN -x ELSE x
Sgn(x) == IF x < 0 THEN -1 ELSE 1

RECURSIVE Pow10Int(_)
Pow10Int(n) == IF n <= 0 THEN 1 ELSE 10 * Pow10Int(n - 1)

\* x / d rounded to the nearest integer (ties away from zero), d > 0
RoundDiv(x, d) == Sgn(x) * ((Abs(x) + d \div 2) \div d)

RECURSIVE Norm(_, _)
Norm(m, e) ==
    IF m = 0 THEN [m |-> 0, e |-> 0]
    ELSE IF Abs(m) >= MantHi THEN Norm(RoundDiv(m, 10), e + 1)
    ELSE IF Abs(m) < MantLo THEN Norm(m * 10, e - 1)
    ELSE [m |-> m, e |-> e]

FromInt(n) == Norm(n, 0)
Zero == [m |-> 0, e |-> 0]
Neg(a) == [m |-> -a.m, e |-> a.e]

\* |a.m| * |b.m| / 10^5 without leaving 32 bits
Mul(a, b) ==
    LET am == Abs(a.m)
        bm == Abs(b.m)
        p  == (am * (bm \div 1000)) \div 100 + (am * (bm % 1000)) \div 100000
    IN  Norm(Sgn(a.m) * Sgn(b.m) * p, a.e + b.e + 5)

RECURSIVE LongDiv(_, _, _, _)
\* n more quotient digits of r / d, appended to q
LongDiv(q, r, d, n) ==
    IF n = 0 THEN q
    ELSE LongDiv(q * 10 + (r * 10) \div d, (r * 10) % d, d, n - 1)

Div(a, b) ==
    LET am == Abs(a.m)
        bm == Abs(b.m)
        q  == LongDiv(am \div bm, am % bm, bm, 6)
    IN  Norm(Sgn(a.m) * Sgn(b.m) * q, a.e - b.e - 6)

\* a + b, a being the operand of larger exponent; one guard digit
AddOrdered(a, b) ==
    LET d == a.e - b.e
    IN  IF d > 7 THEN a
        ELSE Norm(a.m * 10 + RoundDiv(b.m * 10, Pow10Int(d)), a.e - 1)

Add(a, b) ==
    IF a.m = 0 THEN b
    ELSE IF b.m = 0 THEN a
    ELSE IF a.e >= b.e THEN AddOrdered(a, b)
    ELSE AddOrdered(b, a)

Sub(a, b) == Add(a, Neg(b))
Lt(a, b)  == Sub(a, b).m < 0
Le(a, b)  == Sub(a, b).m <= 0

\* numpy's round(2): to two decimals, ties to even
Round2(a) ==
    IF a.e >= -2 THEN a
    ELSE LET k    == -2 - a.e
             p    == Pow10Int(k)
             q    == Abs(a.m) \div p
             r    == Abs(a.m) % p
             half == p \div 2
             up   == IF r > half \/ (r = half /\ q % 2 = 1) THEN 1 ELSE 0
         IN  IF k > 7 THEN Zero ELSE Norm(Sgn(a.m) * (q + up), -2)

\* ln(10) and ln(2) to seven decimals
LN10e7 == 23025851
LN2e7  == 6931472

\* a * b / FixOne for fixed-point a, b >= 0
MulFix(a, b) == (a * (b \div 1000)) \div 100 + (a * (b % 1000)) \div 100000

\* a * FixOne / b for fixed-point 0 <= a < b
DivFix(a, b) == ((a * 1000) \div b) * 100 + (((a * 1000) % b) * 100) \div b

RECURSIVE Halvings(_)
\* how often y is halved to fall below 2
Halvings(y) == IF y >= 2 * FixOne THEN 1 + Halvings(y \div 2) ELSE 0

RECURSIVE HalveTo(_)
HalveTo(y) == IF y >= 2 * FixOne THEN HalveTo(y \div 2) ELSE y

RECURSIVE AtanhSeries(_, _, _, _)
\* z + z^3/3 + z^5/5 + ... up to the power n
AtanhSeries(term, z2, i, n) ==
    IF i > n THEN 0
    ELSE term \div i + AtanhSeries(MulFix(term, z2), z2, i + 2, n)

\* np.log of a positive number, as a fixed-point value
LnFix(a) ==
    LET y  == HalveTo(a.m)
        k  == Halvings(a.m)
        z  == DivFix(y - FixOne, y + FixOne)
        z2 == MulFix(z, z)
    IN  2 * AtanhSeries(z, z2, 1, 11)
        + RoundDiv(k * LN2e7, 100)
        + RoundDiv((a.e + 5) * LN10e7, 100)

Ln(a) == Norm(LnFix(a), -5)

LN10 == Ln(FromInt(10))

\* a float as a fixed-point value (|a| < 1000)
ToFix(a) ==
    IF a.e + 5 >= 0 THEN a.m * Pow10Int(a.e + 5)
    ELSE IF a.e + 5 < -7 THEN 0
    ELSE RoundDiv(a.m, Pow10Int(-(a.e + 5)))

RECURSIVE ExpSeries(_, _, _, _)
\* 1 + s + s^2/2! + ... up to the power n
ExpSeries(term, s, i, n) ==
    IF i > n THEN 0
    ELSE term + ExpSeries(MulFix(term, s) \div i, s, i + 1, n)

RECURSIVE Pow2Int(_)
Pow2Int(n) == IF n <= 0 THEN 1 ELSE 2 * Pow2Int(n - 1)

\* exp(r) for fixed-point 0 <= r < ln(10), as a fixed-point value
ExpReduced(r) ==
    LET ln2 == RoundDiv(LN2e7, 100)
        j   == r \div ln2
        s   == r - j * ln2
    IN  ExpSeries(FixOne, s, 1, 10) * Pow2Int(j)

\* np.exp
Exp(a) ==
    LET x == ToFix(a)
        n == (x * 100) \div LN10e7
        r == x - RoundDiv(n * LN10e7, 100)
    IN  IF r < 0 THEN Norm(ExpReduced(r + RoundDiv(LN10e7, 100)), n - 6)
        ELSE Norm(ExpReduced(r), n - 5)

\* 10 ** a
Pow10(a) ==
    LET x == ToFix(a)
        n == x \div FixOne
        f == x - n * FixOne
    IN  Norm(ExpReduced(MulFix(f, RoundDiv(LN10e7, 100))), n - 5)

----------------------------------------------------------------------------
(* Quantities and units (pint)                                             *)

F(m, e) == [m |-> m, e |-> e]

\* outUnit=None
None == "None"

KCAL  == "kilocalorie / mole"
KJ    == "kilojoule / mole"
MOLAR == "molar"
NANOMOLAR == "nanomolar"
JMOL  == "joule / mole"
DIMENSIONLESS == "dimensionless"
PPM   == "ppm"

\* the factor from a unit to the base unit of its dimension
\* (joule / mole, molar, dimensionless)
UnitFactor(u) ==
    CASE u = KCAL          -> F(418400, -2)
      [] u = JMOL          -> F(100000, -5)
      [] u = KJ            -> F(100000, -2)
      [] u = MOLAR         -> F(100000, -5)
      [] u = NANOMOLAR     -> F(100000, -14)
      [] u = DIMENSIONLESS -> F(100000, -5)
      [] u = PPM           -> F(100000, -11)

Q(mag, unit) == [mag |-> mag, unit |-> unit]

\* the magnitude of q in the base unit of its dimension
BaseMag(q) == Mul(q.mag, UnitFactor(q.unit))

\* Quantity.to(unit)
To(q, unit) ==
    IF q.unit = unit THEN q ELSE Q(Div(BaseMag(q), UnitFactor(unit)), unit)

\* Quantity.round(2)
QRound2(q) == Q(Round2(q.mag), q.unit)

\* scipy.constants.gas_constant, in joule / mole / kelvin
BOLTZMANN == F(831446, -5)

\* BOLTZMANN * temperature * ureg.kelvin, in joule / mole
KBT(temperature) == Mul(BOLTZMANN, FromInt(temperature))

\* 1e-15 * ureg("molar")
TINY == F(100000, -20)

\* the saturating magnitude 1e15
HUGE == F(100000, 10)

----------------------------------------------------------------------------
(* What a call does: return a quantity (by which branch, rounded or not),  *)
(* raise, or fall off the end of the function and return None              *)

NoQ == Q(Zero, None)
Ret(q, branch, rounded) ==
    [tag |-> "return", q |-> q, branch |-> branch, rounded |-> rounded]
Raise(exc)  == [tag |-> exc, q |-> NoQ, branch |-> "raise", rounded |-> FALSE]
ReturnNone  == [tag |-> "None", q |-> NoQ, branch |-> "end", rounded |-> FALSE]
NotCalled   == [tag |-> "-", q |-> NoQ, branch |-> "-", rounded |-> FALSE]

\* the default units of convertValue and convertError
DefaultUnit(finalObs, outUnit) ==
    IF outUnit # None THEN outUnit
    ELSE CASE finalObs = "dg"    -> KCAL
           [] finalObs = "ki"    -> NANOMOLAR
           [] finalObs = "ic50"  -> NANOMOLAR
           [] finalObs = "pic50" -> DIMENSIONLESS
           [] OTHER              -> None

\* the comparison made on the bare magnitude, whatever the unit
BelowTiny_Magnitude(val) == Lt(val.mag, TINY)

\* val < 1e-15 * ureg("molar")
BelowTiny(val) == Lt(BaseMag(val), TINY)

\* the logarithm of the bare magnitude, whatever the unit
LogMolar_Magnitude(val) == Ln(val.mag)

\* np.log(val / ureg.molar)
LogMolar(val) == Ln(BaseMag(val))

FromDgToConc(val, temperature) ==
    Q(Exp(Neg(Div(BaseMag(val), KBT(temperature)))), MOLAR)

FromDgToPic50(val, temperature) ==
    Q(Div(Div(BaseMag(val), KBT(temperature)), LN10), DIMENSIONLESS)

\* the sign of the other direction: -R * T * ln(K)
FromConcToDg_Negated(val, temperature) ==
    Q(Neg(Mul(KBT(temperature), LogMolar(val))), JMOL)

FromConcToDg(val, temperature) ==
    Q(Mul(KBT(temperature), LogMolar(val)), JMOL)

FromConcToPic50(val) ==
    Q(Neg(Div(LogMolar(val), LN10)), DIMENSIONLESS)

FromPic50ToDg(val, temperature) ==
    Q(Neg(Mul(Mul(KBT(temperature), BaseMag(val)), LN10)), JMOL)

FromPic50ToConc(val) ==
    Q(Pow10(Neg(BaseMag(val))), MOLAR)

convertValueFromDg(val, finalObs, temperature, u) ==
    CASE finalObs = "dg"    -> Ret(To(val, u), "identity", FALSE)
      [] finalObs = "ki"    -> Ret(To(FromDgToConc(val, temperature), u), "formula", FALSE)
      [] finalObs = "ic50"  -> Ret(To(FromDgToConc(val, temperature), u), "formula", FALSE)
      [] finalObs = "pic50" -> Ret(To(FromDgToPic50(val, temperature), u), "formula", FALSE)
      [] OTHER              -> Raise("NotImplementedError")

convertValueFromKi(val, finalObs, temperature, u) ==
    CASE finalObs = "dg" ->
            IF BelowTiny(val) THEN Ret(Q(Zero, u), "degenerate", FALSE)
            ELSE Ret(QRound2(To(FromConcToDg(val, temperature), u)), "formula", TRUE)
      [] finalObs = "ki"    -> Ret(To(val, u), "identity", FALSE)
      [] finalObs = "ic50"  -> Ret(To(val, u), "identity", FALSE)
      [] finalObs = "pic50" ->
            IF BelowTiny(val) THEN Ret(Q(Neg(HUGE), u), "degenerate", FALSE)
            ELSE Ret(FromConcToPic50(val), "formula", FALSE)
      [] OTHER              -> Raise("NotImplementedError")

convertValueFromIc50(val, finalObs, temperature, u) ==
    CASE finalObs = "dg" ->
            IF BelowTiny(val) THEN Ret(Q(Zero, u), "degenerate", FALSE)
            ELSE Ret(QRound2(To(FromConcToDg(val, temperature), u)), "formula", TRUE)
      [] finalObs = "ki"    -> Ret(To(val, u), "identity", FALSE)
      [] finalObs = "ic50"  -> Ret(To(val, u), "identity", FALSE)
      [] finalObs = "pic50" ->
            IF BelowTiny(val) THEN Ret(Q(Neg(HUGE), u), "degenerate", FALSE)
            ELSE Ret(FromConcToPic50(val), "formula", FALSE)
      [] OTHER              -> Raise("NotImplementedError")

convertValueFromPic50(val, finalObs, temperature, u) ==
    CASE finalObs = "dg" ->
            Ret(QRound2(To(FromPic50ToDg(val, temperature), u)), "formula", TRUE)
      [] finalObs = "ki"    -> Ret(To(FromPic50ToConc(val), u), "formula", FALSE)
      [] finalObs = "ic50"  -> Ret(To(FromPic50ToConc(val), u), "formula", FALSE)
      [] finalObs = "pic50" -> Ret(To(val, u), "identity", FALSE)
      [] OTHER              -> Raise("NotImplementedError")

convertValue(val, originalObs, finalObs, temperature, outUnit) ==
    LET u == DefaultUnit(finalObs, outUnit)
    IN  CASE originalObs = "dg"    -> convertValueFromDg(val, finalObs, temperature, u)
          [] originalObs = "ki"    -> convertValueFromKi(val, finalObs, temperature, u)
          [] originalObs = "ic50"  -> convertValueFromIc50(val, finalObs, temperature, u)
          [] originalObs = "pic50" -> convertValueFromPic50(val, finalObs, temperature, u)
          [] OTHER                 -> ReturnNone

\* (val * np.log(10)) < 1e-15 * ureg("molar")
ErrBelowTiny(val) == Lt(Mul(BaseMag(val), LN10), TINY)

ErrFromDgToConc(eVal, val, temperature) ==
    Q(Mul(Div(BaseMag(eVal), KBT(temperature)),
          Exp(Neg(Div(BaseMag(val), KBT(temperature))))), MOLAR)

ErrFromDgToPic50(eVal, temperature) ==
    Q(Div(BaseMag(eVal), Mul(KBT(temperature), LN10)), DIMENSIONLESS)

ErrFromConcToDg(eVal, val, temperature) ==
    Q(Mul(KBT(temperature), Div(BaseMag(eVal), BaseMag(val))), JMOL)

ErrFromConcToPic50(eVal, val) ==
    Q(Div(BaseMag(eVal), Mul(BaseMag(val), LN10)), DIMENSIONLESS)

ErrFromPic50ToDg(eVal, temperature) ==
    Q(Mul(Mul(KBT(temperature), LN10), BaseMag(eVal)), JMOL)

ErrFromPic50ToConc(eVal, val) ==
    Q(Mul(Mul(LN10, Pow10(Neg(BaseMag(val)))), BaseMag(eVal)), MOLAR)

convertErrorFromDg(eVal, val, finalObs, temperature, u) ==
    CASE finalObs = "dg"    -> Ret(To(eVal, u), "identity", FALSE)
      [] finalObs = "ki"    ->
            Ret(To(ErrFromDgToConc(eVal, val, temperature), u), "formula", FALSE)
      [] finalObs = "ic50"  ->
            Ret(To(ErrFromDgToConc(eVal, val, temperature), u), "formula", FALSE)
      [] finalObs = "pic50" ->
            Ret(To(ErrFromDgToPic50(eVal, temperature), u), "formula", FALSE)
      [] OTHER              -> Raise("NotImplementedError")

convertErrorFromKi(eVal, val, finalObs, temperature, u) ==
    CASE finalObs = "dg" ->
            IF BelowTiny(val) THEN Ret(Q(Zero, u), "degenerate", FALSE)
            ELSE Ret(QRound2(To(ErrFromConcToDg(eVal, val, temperature), u)),
                     "formula", TRUE)
      [] finalObs = "ki"    -> Ret(To(eVal, u), "identity", FALSE)
      [] finalObs = "ic50"  -> Ret(To(eVal, u), "identity", FALSE)
      [] finalObs = "pic50" ->
            IF ErrBelowTiny(val) THEN Ret(Q(HUGE, u), "degenerate", FALSE)
            ELSE Ret(QRound2(To(ErrFromConcToPic50(eVal, val), u)), "formula", TRUE)
      [] OTHER              -> Raise("NotImplementedError")

convertErrorFromIc50(eVal, val, finalObs, temperature, u) ==
    CASE finalObs = "dg" ->
            IF BelowTiny(val) THEN Ret(Q(Zero, u), "degenerate", FALSE)
            ELSE Ret(QRound2(To(ErrFromConcToDg(eVal, val, temperature), u)),
                     "formula", TRUE)
      [] finalObs = "ki"    -> Ret(To(eVal, u), "identity", FALSE)
      [] finalObs = "ic50"  -> Ret(To(eVal, u), "identity", FALSE)
      [] finalObs = "pic50" ->
            IF ErrBelowTiny(val) THEN Ret(Q(HUGE, u), "degenerate", FALSE)
            ELSE Ret(QRound2(To(ErrFromConcToPic50(eVal, val), u)), "formula", TRUE)
      [] OTHER              -> Raise("NotImplementedError")

convertErrorFromPic50(eVal, val, finalObs, temperature, u) ==
    CASE finalObs = "dg" ->
            Ret(QRound2(To(ErrFromPic50ToDg(eVal, temperature), u)), "formula", TRUE)
      [] finalObs = "ki"    ->
            Ret(QRound2(To(ErrFromPic50ToConc(eVal, val), u)), "formula", TRUE)
      [] finalObs = "ic50"  ->
            Ret(QRound2(To(ErrFromPic50ToConc(eVal, val), u)), "formula", TRUE)
      [] finalObs = "pic50" -> Ret(QRound2(To(eVal, u)), "identity", TRUE)
      [] OTHER              -> Raise("NotImplementedError")

convertError(eVal, val, originalObs, finalObs, temperature, outUnit) ==
    LET u == DefaultUnit(finalObs, outUnit)
    IN  CASE originalObs = "dg"    -> convertErrorFromDg(eVal, val, finalObs, temperature, u)
          [] originalObs = "ki"    -> convertErrorFromKi(eVal, val, finalObs, temperature, u)
          [] originalObs = "ic50"  -> convertErrorFromIc50(eVal, val, finalObs, temperature, u)
          [] originalObs = "pic50" -> convertErrorFromPic50(eVal, val, finalObs, temperature, u)
          [] OTHER                 -> ReturnNone

----------------------------------------------------------------------------
(* The identifier resolvers                                                *)

\* how the outbound request can end: "ok", or a failure of urlopen or of
\* response.read()
NetFailures == {"refused", "http_status", "connect_timeout", "read_reset", "read_timeout"}

\* the exception urlopen / read raises on a failure
ExceptionOf(failure) ==
    CASE failure = "refused"         -> "URLError"
      [] failure = "http_status"     -> "HTTPError"
      [] failure = "connect_timeout" -> "URLError"
      [] failure = "read_reset"      -> "ConnectionResetError"
      [] failure = "read_timeout"    -> "socket.timeout"

\* except urllib.error.URLError (HTTPError is a subclass of URLError)
CaughtAsURLError(exc) == exc \in {"URLError", "HTTPError"}

RECURSIVE Join(_)
\* ("\n").join(lines), each line a sequence of text pieces
Join(lines) ==
    IF Len(lines) = 0 THEN <<>>
    ELSE IF Len(lines) = 1 THEN Head(lines)
    ELSE Head(lines) \o <<"\n">> \o Join(Tail(lines))

Range(seq) == {seq[i] : i \in 1..Len(seq)}
SelectSeqNotIn(seq, S) == SelectSeq(seq, LAMBDA x : x \notin S)

Returned(text, warnings) == [tag |-> "return", text |-> text, warnings |-> warnings]
Propagated(exc)          == [tag |-> exc, text |-> <<>>, warnings |-> <<>>]
Idle                     == [tag |-> "-", text |-> <<>>, warnings |-> <<>>]

PdbLink(p) == <<"REP1", "http://www.rcsb.org/structure/", p, "REP2", p, "REP3">>

\* pdb: [isNone, ids], ids being pdb.split(); page: the words of the response
findPdbUrl(pdb, failure, page) ==
    IF pdb.isNone THEN Returned(<<>>, <<>>)
    ELSE IF failure = "ok"
    THEN Returned(Join([i \in 1..Len(page) |-> PdbLink(page[i])]),
                  [i \in 1..Len(SelectSeqNotIn(pdb.ids, Range(page))) |->
                      <<"PDB not found", SelectSeqNotIn(pdb.ids, Range(page))[i]>>])
    ELSE IF CaughtAsURLError(ExceptionOf(failure))
    THEN Returned(Join([i \in 1..Len(pdb.ids) |-> <<pdb.ids[i]>>]),
                  <<<<"Could not find PDB", ExceptionOf(failure)>>>>)
    ELSE Propagated(ExceptionOf(failure))

\* a field of the JSON object that is absent
Missing == "<missing>"

\* aut = obj["author"] ... / tit = obj["short-container-title"] ... /
\* dat = obj["published-print"]["date-parts"][0][0] ...: the text, or the
\* exception the lookup raises
AuthorOf(obj) ==
    IF ~obj.author.has THEN "KeyError"
    ELSE IF Len(obj.author.items) > 0
    THEN (IF obj.author.items[1] = Missing THEN "KeyError" ELSE obj.author.items[1])
    ELSE ""

TitleOf(obj) ==
    IF ~obj.title.has THEN "KeyError"
    ELSE IF Len(obj.title.items) > 0 THEN obj.title.items[1]
    ELSE ""

DateOf(obj) ==
    IF obj.published.has
    THEN (IF Len(obj.published.items) > 0 THEN obj.published.items[1] ELSE "IndexError")
    ELSE "XXXX"

UrlOf(obj) == IF obj.url = Missing THEN "KeyError" ELSE obj.url

Exceptions == {"KeyError", "IndexError"}

\* the object whose fields are read: obj["message"] when obj["status"] == "ok",
\* else the envelope itself, which has none of the fields
Message(obj) ==
    IF obj.status = "ok" THEN obj
    ELSE [obj EXCEPT !.author = [has |-> FALSE, items |-> <<>>],
                     !.title = [has |-> FALSE, items |-> <<>>],
                     !.published = [has |-> FALSE, items |-> <<>>],
                     !.url = Missing]

DescString(aut, tit, dat) == <<aut, " et al., ", tit, " ", dat>>

findDoiUrl(doi, failure, response) ==
    LET obj == Message(response)
        aut == AuthorOf(obj)
        tit == TitleOf(obj)
        dat == DateOf(obj)
        url == UrlOf(obj)
    IN  IF failure # "ok"
        THEN IF CaughtAsURLError(ExceptionOf(failure))
             THEN Returned(<<doi>>, <<<<"Could not find DOI", doi>>>>)
             ELSE Propagated(ExceptionOf(failure))
        ELSE IF aut \in Exceptions THEN Propagated(aut)
        ELSE IF tit \in Exceptions THEN Propagated(tit)
        ELSE IF dat \in Exceptions THEN Propagated(dat)
        ELSE IF url \in Exceptions THEN Propagated(url)
        ELSE Returned(<<"REP1", url, "REP2">> \o DescString(aut, tit, dat) \o <<"REP3">>,
                      <<>>)

----------------------------------------------------------------------------
(* Bounds of the checked inputs                                            *)

\* concentrations range over mantissa * 10^-k molar, k in 0..MaxNegExp
MaxNegExp == 17
\* temperatures are 300 + 10 * i kelvin, i in 0..MaxTempStep
MaxTempStep == 1
\* pic50 values are 4.5 * i, i in 0..MaxPicStep
MaxPicStep == 3
\* a pdb argument names at most MaxPdbIds identifiers, a response as many
MaxPdbIds == 2

ObsCodes == {"dg", "ki", "ic50", "pic50", "kd"}
ConcKinds == {"ki", "ic50"}

ConcMants == {100000, 500000, 999999}
Concentrations ==
    {Q(F(m, -k - 5), MOLAR) : m \in ConcMants, k \in 0..MaxNegExp}
    \cup {Q(F(m, 9 - k - 5), NANOMOLAR) : m \in ConcMants, k \in 0..MaxNegExp}

Energies ==
    {Q(mag, u) : mag \in {F(-123500, -4), F(-106780, -4), Zero, F(870500, -5)},
                 u \in {KCAL, KJ}}

Pic50s == {Q(Norm(45 * i, -1), DIMENSIONLESS) : i \in 0..MaxPicStep}

Temperatures == {300 + 10 * i : i \in 0..MaxTempStep}

ValuesOf(obs) ==
    CASE obs = "dg"    -> Energies
      [] obs = "ki"    -> Concentrations
      [] obs = "ic50"  -> Concentrations
      [] obs = "pic50" -> Pic50s
      [] OTHER         -> {Q(F(100000, -5), NANOMOLAR)}

\* the measurement error that comes with a value: a tenth of a concentration,
\* 0.123456 of the unit otherwise
ErrorsOf(v, obs) ==
    IF obs \in ConcKinds THEN {Q(Mul(v.mag, F(100000, -6)), v.unit)}
    ELSE {Q(F(123456, -6), v.unit)}

OutUnitsOf(obs) ==
    CASE obs = "dg"    -> {None, KJ}
      [] obs = "ki"    -> {None, MOLAR}
      [] obs = "ic50"  -> {None, MOLAR}
      [] obs = "pic50" -> {None, PPM}
      [] OTHER         -> {None, KCAL}

PdbIds == {"3E7O", "4G3D"}
RECURSIVE SeqsUpTo(_, _)
SeqsUpTo(S, n) ==
    IF n = 0 THEN {<<>>}
    ELSE SeqsUpTo(S, n - 1)
         \cup {Append(q, x) : q \in {r \in SeqsUpTo(S, n - 1) : Len(r) = n - 1}, x \in S}

PdbArgs == {[isNone |-> TRUE, ids |-> <<>>]}
           \cup {[isNone |-> FALSE, ids |-> q] : q \in SeqsUpTo(PdbIds, MaxPdbIds)}
Pages == SeqsUpTo(PdbIds, MaxPdbIds)

Dois == {"10.1021/ja512751q"}
Lists(x) == {[has |-> FALSE, items |-> <<>>], [has |-> TRUE, items |-> <<>>],
             [has |-> TRUE, items |-> <<x>>]}
Responses ==
    [status : {"ok", "failed"},
     author : Lists("Wang") \cup {[has |-> TRUE, items |-> <<Missing>>]},
     title : Lists("J. Am. Chem. Soc."),
     published : Lists("2015"),
     url : {"http://dx.doi.org/10.1021/ja512751q", Missing}]
NoResponse == [status |-> "-", author |-> [has |-> FALSE, items |-> <<>>],
               title |-> [has |-> FALSE, items |-> <<>>],
               published |-> [has |-> FALSE, items |-> <<>>], url |-> Missing]
NoPdb == [isNone |-> TRUE, ids |-> <<>>]

----------------------------------------------------------------------------
(* The state: one conversion request and what the calls made for it        *)
(* returned; one resolver call and how it ended                            *)

VARIABLES pc, val, eVal, originalObs, finalObs, temperature, outUnit,
          value, error, back,
          fn, pdb, doi, failure, page, response, outcome

convVars == <<pc, val, eVal, originalObs, finalObs, temperature, outUnit,
              value, error, back>>
netVars  == <<fn, pdb, doi, failure, page, response, outcome>>
vars     == <<convVars, netVars>>

NetIdle ==
    /\ fn = "-" /\ pdb = NoPdb /\ doi = "-" /\ failure = "-"
    /\ page = <<>> /\ response = NoResponse /\ outcome = Idle

ConvIdle ==
    /\ pc = "-" /\ val = NoQ /\ eVal = NoQ /\ originalObs = "-" /\ finalObs = "-"
    /\ temperature = 0 /\ outUnit = None
    /\ value = NotCalled /\ error = NotCalled /\ back = NotCalled

\* a conversion request, nothing called yet
Init ==
    /\ pc = "request"
    /\ originalObs \in ObsCodes
    /\ finalObs \in ObsCodes
    /\ val \in ValuesOf(originalObs)
    /\ eVal \in ErrorsOf(val, originalObs)
    /\ temperature \in Temperatures
    /\ outUnit \in OutUnitsOf(finalObs)
    /\ value = NotCalled /\ error = NotCalled /\ back = NotCalled
    /\ NetIdle

\* value = convertValue(val, originalObs, finalObs, temperature, outUnit)
CallConvertValue ==
    /\ pc = "request"
    /\ value' = convertValue(val, originalObs, finalObs, temperature, outUnit)
    /\ pc' = "value"
    /\ UNCHANGED <<val, eVal, originalObs, finalObs, temperature, outUnit, error, back>>
    /\ UNCHANGED netVars

\* error = convertError(eVal, val, originalObs, finalObs, temperature, outUnit)
CallConvertError ==
    /\ pc = "value"
    /\ error' = convertError(eVal, val, originalObs, finalObs, temperature, outUnit)
    /\ pc' = "error"
    /\ UNCHANGED <<val, eVal, originalObs, finalObs, temperature, outUnit, value, back>>
    /\ UNCHANGED netVars

\* the way back: the returned quantity converted from finalObs to originalObs,
\* into the unit of val; only a quantity the formulas produced is sent back
CallConvertBack ==
    /\ pc = "error"
    /\ value.tag = "return"
    /\ value.branch # "degenerate"
    /\ back' = convertValue(value.q, finalObs, originalObs, temperature, val.unit)
    /\ pc' = "back"
    /\ UNCHANGED <<val, eVal, originalObs, finalObs, temperature, outUnit, value, error>>
    /\ UNCHANGED netVars

Next == CallConvertValue \/ CallConvertError \/ CallConvertBack

Spec == Init /\ [][Next]_vars

\* no resolver called yet
InitNet ==
    /\ ConvIdle
    /\ NetIdle

CallFindPdbUrl ==
    /\ fn = "-"
    /\ \E p \in PdbArgs, f \in NetFailures \cup {"ok"}, g \in Pages :
          /\ (p.isNone => f = "ok")
          /\ (p.isNone \/ f # "ok" => g = <<>>)
          /\ fn' = "findPdbUrl"
          /\ pdb' = p
          /\ failure' = f
          /\ page' = g
          /\ outcome' = findPdbUrl(p, f, g)
    /\ UNCHANGED <<doi, response>>
    /\ UNCHANGED convVars

CallFindDoiUrl ==
    /\ fn = "-"
    /\ \E d \in Dois, f \in NetFailures \cup {"ok"}, r \in Responses \cup {NoResponse} :
          /\ (f = "ok" <=> r # NoResponse)
          /\ fn' = "findDoiUrl"
          /\ doi' = d
          /\ failure' = f
          /\ response' = r
          /\ outcome' = findDoiUrl(d, f, r)
    /\ UNCHANGED <<pdb, page>>
    /\ UNCHANGED convVars

NextNet == CallFindPdbUrl \/ CallFindDoiUrl

SpecNet == InitNet /\ [][NextNet]_vars

----------------------------------------------------------------------------
(* Properties                                                              *)

\* the four observable codes of the docstrings
Kinds == {"dg", "ki", "ic50", "pic50"}

AbsF(a) == [m |-> Abs(a.m), e |-> a.e]
ValueCalled == pc \in {"value", "error", "back"}
ErrorCalled == pc \in {"error", "back"}
AtLeast1e15Molar(v) == ~Lt(Mul(v.mag, UnitFactor(v.unit)), F(100000, -20))
Below1Molar(v) == Lt(Mul(v.mag, UnitFactor(v.unit)), F(100000, -5))

\* what the round trip may lose: 0.01 of the unit plus as much again for the
\* arithmetic (dg, pic50); two percent of the value (ki, ic50), which covers the
\* 0.01 kcal/mol an intermediate free energy is rounded by
WithinRoundTrip(a, b, obs) ==
    IF obs \in ConcKinds
    THEN Le(AbsF(Sub(a, b)), Mul(AbsF(b), F(200000, -7)))
    ELSE Le(AbsF(Sub(a, b)), F(200000, -7))

\* C1: converting a non-degenerate value from kind A to kind B and back to A, at
\* the same temperature and into the unit of the original, reproduces the value
\* within the rounding tolerance, for every ordered pair of kinds.
C1_RoundTrip ==
    (/\ pc = "back"
     /\ originalObs \in Kinds /\ finalObs \in Kinds
     /\ (originalObs \in ConcKinds => AtLeast1e15Molar(val)))
    => /\ back.tag = "return"
       /\ back.q.unit = val.unit
       /\ WithinRoundTrip(back.q.mag, val.mag, originalObs)

\* R * T * ln(K) in joule / mole, from the arithmetic alone
RTlnK(v, T) ==
    Mul(Mul(F(831446, -5), FromInt(T)), Ln(Mul(v.mag, UnitFactor(v.unit))))
\* exp(-dG / (R * T)), from the arithmetic alone
ExpMinusDgOverRT(v, T) ==
    Exp(Neg(Div(Mul(v.mag, UnitFactor(v.unit)), Mul(F(831446, -5), FromInt(T)))))
TargetUnit == IF outUnit # None THEN outUnit
              ELSE IF finalObs = "dg" THEN KCAL
              ELSE IF finalObs \in ConcKinds THEN NANOMOLAR
              ELSE DIMENSIONLESS
InUnit(baseMag, u) == Q(Div(baseMag, UnitFactor(u)), u)

C2_DgToConc ==
    (ValueCalled /\ originalObs = "dg" /\ finalObs \in ConcKinds)
    => /\ value.tag = "return"
       /\ value.q = InUnit(ExpMinusDgOverRT(val, temperature), TargetUnit)

InSignRange(v) == AtLeast1e15Molar(v) /\ Below1Molar(v)

\* C3: a concentration v (ki or ic50) with 1e-15 molar <= v < 1 molar converts
\* to a free energy that is <= 0, and within that range a smaller concentration
\* never yields a larger free energy.
C3_SignOfDg ==
    (ValueCalled /\ originalObs \in ConcKinds /\ finalObs = "dg" /\ InSignRange(val))
    => /\ value.tag = "return"
       /\ value.q.mag.m <= 0
       /\ \A v2 \in Concentrations :
             (InSignRange(v2) /\ Le(Mul(v2.mag, UnitFactor(v2.unit)),
                                     Mul(val.mag, UnitFactor(val.unit))))
             => Le(convertValue(v2, originalObs, finalObs, temperature, outUnit).q.mag,
                   value.q.mag)

C3_Witness ==
    /\ pc = "value" /\ originalObs = "ic50" /\ finalObs = "dg"
    /\ val = Q(F(500000, -8), MOLAR) /\ outUnit = KJ
    /\ value.tag = "return" /\ value.q.mag.m < 0

\* C4: a call of convertValue or convertError whose originalObs or finalObs is
\* none of dg, ki, ic50, pic50 raises NotImplementedError and returns nothing,
\* whichever of the two is the unknown one.
C4_Unsupported ==
    (originalObs \notin Kinds \/ finalObs \notin Kinds)
    => /\ (ValueCalled => value.tag = "NotImplementedError")
       /\ (ErrorCalled => error.tag = "NotImplementedError")

SaturatingDg == Q(Zero, TargetUnit)
SaturatingPic50 == Q(F(-100000, 10), TargetUnit)
C5_Case == ValueCalled /\ originalObs \in ConcKinds /\ finalObs \in {"dg", "pic50"}

C5_BelowBoundary ==
    (C5_Case /\ ~AtLeast1e15Molar(val))
    => /\ value.tag = "return"
       /\ value.branch = "degenerate"
       /\ (finalObs = "dg" => value.q = SaturatingDg)
       /\ (finalObs = "pic50" => value.q = SaturatingPic50)

\* C5 as stated: below 1e-15 molar (in whatever unit) the conversion to dg
\* returns exactly 0 and the conversion to pic50 exactly -1e15; at or above
\* 1e-15 molar neither saturating value is returned and the logarithmic formula
\* is evaluated.
C5_Boundary ==
    /\ C5_BelowBoundary
    /\ (C5_Case /\ AtLeast1e15Molar(val))
       => /\ value.branch = "formula"
          /\ (finalObs = "dg" => value.q.mag # Zero)
          /\ (finalObs = "pic50" => value.q.mag # F(-100000, 10))

\* C5 amended: below 1e-15 molar as stated; at or above 1e-15 molar the value
\* of the logarithmic formula is returned, which is never -1e15 but is itself 0
\* where R*T*ln(v) rounds to 0.00 (as at v = 1 molar).
C5_BoundaryAmended ==
    /\ C5_BelowBoundary
    /\ (C5_Case /\ AtLeast1e15Molar(val))
       => /\ value.branch = "formula"
          /\ (finalObs = "dg"
              => value.q = QRound2(InUnit(RTlnK(val, temperature), TargetUnit)))
          /\ (finalObs = "pic50"
              => /\ value.q.mag = Neg(Div(Ln(Mul(val.mag, UnitFactor(val.unit))),
                                          Ln(FromInt(10))))
                 /\ value.q.mag # F(-100000, 10))

C5_Witness ==
    /\ pc = "value" /\ originalObs = "ki" /\ finalObs = "pic50"
    /\ val = Q(F(999999, -12), NANOMOLAR) /\ outUnit = None
    /\ value.q = Q(F(-100000, 10), DIMENSIONLESS)

IsRounded2(q) == Round2(q.mag) = q.mag

\* C6: a returned value whose target kind is dg is rounded to 2 decimals in the
\* target unit, the identity dg -> dg included; one whose target kind is ki, ic50
\* or pic50 is never rounded.
C6_Rounding ==
    (originalObs \in Kinds /\ finalObs \in Kinds)
    => /\ (ValueCalled /\ value.tag = "return")
          => IF finalObs = "dg" THEN IsRounded2(value.q) ELSE ~value.rounded
       /\ (ErrorCalled /\ error.tag = "return")
          => IF finalObs = "dg" THEN IsRounded2(error.q) ELSE ~error.rounded

\* C7: for each of the 16 kind pairs the returned quantity is expressed in the
\* requested outUnit, or in the default of the target kind when none is given.
C7_TargetUnit ==
    (ValueCalled /\ originalObs \in Kinds /\ finalObs \in Kinds)
    => /\ value.tag = "return"
       /\ value.q.unit = TargetUnit

C8_Case == ErrorCalled /\ originalObs \in ConcKinds /\ finalObs \in {"dg", "pic50"}

\* C8: convertError takes its degenerate branch exactly when convertValue does for
\* the same value and kind pair, that is exactly below 1e-15 molar, and then
\* returns +1e15 in the target unit.
C8_ErrorBoundary ==
    C8_Case
    => /\ error.tag = "return"
       /\ (error.branch = "degenerate" <=> value.branch = "degenerate")
       /\ (error.branch = "degenerate" <=> ~AtLeast1e15Molar(val))
       /\ (error.branch = "degenerate" => error.q = Q(F(100000, 10), TargetUnit))

HasMarker(text) == \E i \in 1..Len(text) : text[i] \in {"REP1", "REP2", "REP3"}
RECURSIVE JoinedByNewlines(_)
JoinedByNewlines(ids) ==
    IF Len(ids) = 0 THEN <<>>
    ELSE IF Len(ids) = 1 THEN <<ids[1]>>
    ELSE <<ids[1], "\n">> \o JoinedByNewlines(Tail(ids))

\* C9: on every failure of the outbound request or of reading its response
\* findPdbUrl returns the requested identifiers joined by newlines, without
\* REP1/REP2/REP3 markers, and warns exactly once; findDoiUrl returns the raw
\* doi; neither lets the failure propagate.
C9_NetworkFallback ==
    /\ (fn = "findPdbUrl" /\ ~pdb.isNone /\ failure # "ok")
       => /\ outcome.tag = "return"
          /\ outcome.text = JoinedByNewlines(pdb.ids)
          /\ ~HasMarker(outcome.text)
          /\ Len(outcome.warnings) = 1
    /\ (fn = "findDoiUrl" /\ failure # "ok")
       => /\ outcome.tag = "return"
          /\ outcome.text = <<doi>>

FirstOrEmpty(field) ==
    IF field.has /\ Len(field.items) > 0 /\ field.items[1] # Missing
    THEN field.items[1] ELSE ""

\* C10: for every successfully fetched response findDoiUrl returns
\* REP1<URL>REP2<label>REP3, the label being "<family name> et al., <short
\* container title> <year>" with the empty string for each of the three fields
\* that is absent or empty; no absent or empty field makes the call fail.
C10_CitationLabel ==
    (fn = "findDoiUrl" /\ failure = "ok" /\ response.status = "ok"
     /\ response.url # Missing)
    => /\ outcome.tag = "return"
       /\ outcome.text = <<"REP1", response.url, "REP2",
                           FirstOrEmpty(response.author), " et al., ",
                           FirstOrEmpty(response.title), " ",
                           FirstOrEmpty(response.published), "REP3">>

====
